---- MODULE Spec2Model ----
(***************************************************************************)
(* A model of the vue-i18n loader (src/src/index.ts): the webpack loader   *)
(* that turns an <i18n> custom block into a module installing the          *)
(* messages on a component, optionally split into per-locale fragment      *)
(* files that are required lazily.                                         *)
(*                                                                         *)
(* Text is modelled as a sequence of tokens.  The characters that matter   *)
(* to escaping are tokens of their own: the backslash, the single quote,   *)
(* the double quote, "LS" (U+2028), "PS" (U+2029), "TAB", "u", "t" and the *)
(* digits.  Every other token is a run of ordinary characters that starts  *)
(* with a character that is no escape character of the target language.   *)
(* A JavaScript object is a sequence of [k, v] pairs with distinct keys,   *)
(* in insertion order.                                                     *)
(***************************************************************************)
EXTENDS Integers, Sequences, FiniteSets, TLC

VARIABLES
    messagesString,   \* SpecClean: the argument of cleanMessagesString
    cleaned,          \* SpecClean: None, or Some(its result)
    request,          \* Spec: the inputs the invocation has read
    steps,            \* Spec: the calls the invocation made, in order
    completed,        \* Spec: the arguments of each this.callback call
    dirs,             \* the scratch directories tmp.dirSync has made
    files,            \* the files on disk: [path, content, by]
    Component,        \* SpecApply: Component.options, its __i18n and _Ctor
    applied,          \* SpecApply: the options as found, and the values pushed
    pluginOptions,    \* SpecWorkers: the options every invocation is given
    workers,          \* SpecWorkers: where each invocation is
    writes            \* SpecWorkers: every write made: [path, by]

cleanVars == <<messagesString, cleaned>>
loaderVars == <<request, steps, completed>>
diskVars == <<dirs, files>>
applyVars == <<Component, applied>>
workerVars == <<pluginOptions, workers, writes>>
vars == <<cleanVars, loaderVars, diskVars, applyVars, workerVars>>

\* The variables a specification leaves alone.
Idle == [idle |-> TRUE]
CleanIdle == messagesString = <<>> /\ cleaned = Idle
LoaderIdle == request = Idle /\ steps = <<>> /\ completed = <<>>
DiskIdle == dirs = {} /\ files = {}
ApplyIdle == Component = Idle /\ applied = Idle
WorkersIdle == pluginOptions = Idle /\ workers = Idle /\ writes = {}

\* ------------------------------------------------------------------ bounds

\* Longest text handed to cleanMessagesString.
MaxLen == 3

\* ------------------------------------------------------------- characters

BS == "\\"
SQ == "'"
DQ == "\""
LS == "LS"
PS == "PS"

\* Every text of at most n tokens over the alphabet A.
TextsUpTo(A, n) == UNION {[1..k -> A] : k \in 0..n}

RECURSIVE ReplaceAll(_, _, _)
\* String.prototype.replace with a global one-character pattern c and the
\* replacement text r.
ReplaceAll(s, c, r) ==
    IF s = <<>> THEN <<>>
    ELSE (IF Head(s) = c THEN r ELSE <<Head(s)>>) \o ReplaceAll(Tail(s), c, r)

\* ----------------------------------------------------- cleanMessagesString

\* The replacement texts as the string literals of the source denote them.
EscLS == <<BS, "u", "2", "0", "2", "8">>
EscPS == <<BS, "u", "2", "0", "2", "9">>
EscBS == <<BS, BS>>
EscSQ == <<BS, "u", "0", "0", "2", "7">>

\* A slip: the quote is escaped before the backslash, so the backslash of the
\* quote's escape is doubled as well.
cleanMessagesStringQuoteFirst(s) ==
    ReplaceAll(ReplaceAll(ReplaceAll(ReplaceAll(s, LS, EscLS), PS, EscPS),
                          SQ, EscSQ), BS, EscBS)

cleanMessagesString(s) ==
    ReplaceAll(ReplaceAll(ReplaceAll(ReplaceAll(s, LS, EscLS), PS, EscPS),
                          BS, EscBS), SQ, EscSQ)

\* ------------------------------------------- reading a string literal back

HexDigits == {"0", "2", "7", "8", "9"}

\* The character a \uXXXX escape denotes.
CodePoint(h) ==
    IF h = <<"2", "0", "2", "8">> THEN LS
    ELSE IF h = <<"2", "0", "2", "9">> THEN PS
    ELSE IF h = <<"0", "0", "2", "7">> THEN SQ
    ELSE "U+other"

RECURSIVE Unescape(_)
\* The string value of the body of a single-quoted string literal of the
\* generated module: <<"SyntaxError">> followed by the rest where the body
\* is no legal literal body.
Unescape(s) ==
    IF s = <<>> THEN <<>>
    ELSE IF Head(s) = BS THEN
        IF Len(s) < 2 THEN <<"SyntaxError">>
        ELSE IF s[2] = "u" THEN
            IF Len(s) >= 6 /\ \A i \in 3..6 : s[i] \in HexDigits
            THEN <<CodePoint(SubSeq(s, 3, 6))>> \o Unescape(SubSeq(s, 7, Len(s)))
            ELSE <<"SyntaxError">>
        ELSE IF s[2] = "t" THEN <<"TAB">> \o Unescape(SubSeq(s, 3, Len(s)))
        ELSE <<s[2]>> \o Unescape(SubSeq(s, 3, Len(s)))
    ELSE IF Head(s) = SQ THEN <<"SyntaxError">>
    ELSE <<Head(s)>> \o Unescape(Tail(s))

\* ------------------------------------------------------------ JS values

None == [none |-> TRUE]
Some(v) == [val |-> v]

\* A JSON string value and a JSON object value.
Str(chars) == [str |-> chars]
Obj(props) == [props |-> props]
IsObj(v) == "props" \in DOMAIN v
Prop(k, v) == [k |-> k, v |-> v]

Keys(o) == {o.props[i].k : i \in 1..Len(o.props)}

\* o[k]: None is undefined.
Get(o, k) ==
    IF IsObj(o) /\ k \in Keys(o)
    THEN Some(o.props[CHOOSE i \in 1..Len(o.props) : o.props[i].k = k].v)
    ELSE None

\* Defining property k of the object literal under construction: an own
\* property keeps its place and takes the new value, a new one is appended.
Define(props, k, v) ==
    IF \E i \in 1..Len(props) : props[i].k = k
    THEN [i \in 1..Len(props) |->
             IF props[i].k = k THEN Prop(k, v) ELSE props[i]]
    ELSE Append(props, Prop(k, v))

RECURSIVE DefineAll(_, _)
DefineAll(props, src) ==
    IF src = <<>> THEN props
    ELSE DefineAll(Define(props, Head(src).k, Head(src).v), Tail(src))

\* A slip: the spread keeps a property the literal has already.
SpreadKeepFirst(props, value) ==
    IF value = None THEN props
    ELSE props \o SelectSeq(value.val.props,
                            LAMBDA p : \A i \in 1..Len(props) : props[i].k # p.k)

\* {...props, ...value}: undefined spreads nothing.
Spread(props, value) ==
    IF value = None THEN props ELSE DefineAll(props, value.val.props)

\* ---------------------------------------------------------- JSON.stringify

RECURSIVE QuoteChars(_)
QuoteChars(chars) ==
    IF chars = <<>> THEN <<>>
    ELSE (IF Head(chars) = DQ THEN <<BS, DQ>>
          ELSE IF Head(chars) = BS THEN <<BS, BS>>
          ELSE IF Head(chars) = "TAB" THEN <<BS, "t">>
          ELSE <<Head(chars)>>) \o QuoteChars(Tail(chars))

\* QuoteJSONString: U+2028, U+2029 and the single quote are left as they are.
QuoteJSONString(chars) == <<DQ>> \o QuoteChars(chars) \o <<DQ>>

RECURSIVE Join(_, _)
Join(parts, sep) ==
    IF parts = <<>> THEN <<>>
    ELSE IF Len(parts) = 1 THEN parts[1]
    ELSE parts[1] \o sep \o Join(Tail(parts), sep)

RECURSIVE Stringify(_, _, _)
\* JSON.stringify(v, null, gap) at indentation indent (texts of spaces).
Stringify(v, gap, indent) ==
    IF ~IsObj(v) THEN QuoteJSONString(v.str)
    ELSE IF v.props = <<>> THEN <<"{", "}">>
    ELSE LET inner == indent \o gap
             part(p) == QuoteJSONString(<<p.k>>) \o <<":">>
                            \o (IF gap = <<>> THEN <<>> ELSE <<" ">>)
                            \o Stringify(p.v, gap, inner)
             parts == [i \in 1..Len(v.props) |-> part(v.props[i])]
         IN  IF gap = <<>>
             THEN <<"{">> \o Join(parts, <<",">>) \o <<"}">>
             ELSE <<"{", "NL">> \o inner \o Join(parts, <<",", "NL">> \o inner)
                      \o <<"NL">> \o indent \o <<"}">>

\* ------------------------------------------------------------------ inputs

Locale == {"en", "fr"}

hi == Str(<<"hi">>)
salut == Str(<<"salut">>)
bonus == Str(<<"x">>)
\* A message holding every character the sanitizer is about.
tricky == Str(<<"it", SQ, "s", LS, BS, PS>>)

EnObjects == {Obj(<<Prop("hello", hi)>>), Obj(<<Prop("hello", tricky)>>)}
FrObjects == {Obj(<<Prop("hello", salut), Prop("bonus", bonus)>>)}

\* The parsed values of the resources: tables of some of the locales, and
\* single-locale bodies.
Tables ==
    {Obj(Spread(Spread(<<>>, en), fr)) :
        en \in {None} \cup {Some(Obj(<<Prop("en", o)>>)) : o \in EnObjects},
        fr \in {None} \cup {Some(Obj(<<Prop("fr", o)>>)) : o \in FrObjects}}

Values == Tables \cup EnObjects

ParseError == [error |-> "ParseError"]
Undefined == [undefined |-> TRUE]

\* A resource body is characterised by what each parser makes of it.
Sources ==
    {[yaml |-> Some(v), json5 |-> Some(v), json |-> Some(v)] : v \in Values}
    \cup {[yaml |-> Some(v), json5 |-> Some(v), json |-> ParseError] : v \in Values}
    \cup {[yaml |-> Some(v), json5 |-> ParseError, json |-> ParseError] : v \in Values}
    \cup {[yaml |-> ParseError, json5 |-> ParseError, json |-> ParseError],
          [yaml |-> Undefined, json5 |-> ParseError, json |-> ParseError]}

\* ----------------------------------------------------------------- convert

\* convert(source, lang): the text handed to JSON.parse, characterised by
\* what JSON.parse makes of it, or the parser's exception.
convert(source, lang) ==
    IF lang \in {Some("yaml"), Some("yml")} THEN
        IF source.yaml = ParseError THEN [threw |-> TRUE]
        \* JSON.stringify(undefined) is undefined, which is no JSON text
        ELSE IF source.yaml = Undefined THEN [threw |-> FALSE, json |-> ParseError]
        ELSE [threw |-> FALSE, json |-> source.yaml]
    ELSE IF lang = Some("json5") THEN
        IF source.json5 = ParseError THEN [threw |-> TRUE]
        ELSE [threw |-> FALSE, json |-> source.json5]
    ELSE [threw |-> FALSE, json |-> source.json]

\* ------------------------------------------------------- stringifyMessages

stringifyMessages(messages) ==
    <<SQ>> \o cleanMessagesString(Stringify(messages, <<>>, <<>>)) \o <<SQ>>

\* --------------------------------------------------- stringifyLazyMessages

PathSeparators == {BS, "/"}

\* The run of characters of path from position p that are no separator and
\* no question mark.
SegmentEnd(path, p) ==
    CHOOSE e \in (p - 1)..Len(path) :
        /\ \A i \in p..e : path[i] \notin PathSeparators \cup {"?"}
        /\ e = Len(path) \/ path[e + 1] \in PathSeparators \cup {"?"}

\* resourcePath.match(/(^|[\\/])([^\\/?]+)(\?|$)/): the positions at which
\* group 2 of a match can start, the leftmost of which is the match.
SegmentStarts(path) ==
    {p \in 1..Len(path) :
        /\ p = 1 \/ path[p - 1] \in PathSeparators
        /\ SegmentEnd(path, p) >= p
        /\ SegmentEnd(path, p) = Len(path) \/ path[SegmentEnd(path, p) + 1] = "?"}

Min(S) == CHOOSE x \in S : \A y \in S : x <= y

Filename(resourcePath) ==
    IF SegmentStarts(resourcePath) = {} THEN <<"locale.json">>
    ELSE LET p == Min(SegmentStarts(resourcePath))
         IN  SubSeq(resourcePath, p, SegmentEnd(resourcePath, p))

\* -------------------------------------------- generateDynamicRequireString

prefix == <<"__vue-i18n__">>

filePath(dirName, locale, filename) ==
    dirName \o <<"/">> \o prefix \o <<locale>> \o <<"__">> \o filename

localeSpecificMessages(messages, locale, fallbackLocale) ==
    Obj(<<Prop(locale,
               Obj(Spread(Spread(<<>>, Get(messages, fallbackLocale)),
                          Get(messages, locale))))>>)

\* !(!options.locales || !options.fallbackLocale): an array, empty or not,
\* is truthy; undefined and the empty string are falsy.
Configured(options) ==
    options.locales # None /\ options.fallbackLocale \notin {None, Some("")}

requireString(dirName, filename) ==
    <<"require(", SQ>> \o dirName \o <<"/">> \o prefix
        \o <<SQ, " + window.__VUE_I18N_CURRENT_LOCALE__ + ", SQ, "__">>
        \o filename \o <<SQ, ")">>

ConfigurationError == [error |-> "ConfigurationError"]
FilesystemError == [error |-> "FilesystemError"]
SyntaxError == [error |-> "ParseError"]

\* The outcome of generateDynamicRequireString where tmp.dirSync returns
\* env.dir (or throws, env.dirFails) and the env.writeFailsAt-th write throws
\* (0: none does): what it threw, what it returned, the directories and files
\* it made, and its calls.
generateDynamicRequireString(filename, messages, options, env) ==
    IF ~Configured(options)
    THEN [threw |-> Some(ConfigurationError), value |-> <<>>,
          dirs |-> {}, written |-> <<>>, steps |-> <<>>]
    ELSE IF env.dirFails
    THEN [threw |-> Some(FilesystemError), value |-> <<>>,
          dirs |-> {}, written |-> <<>>, steps |-> <<"tmp.dirSync">>]
    ELSE LET locales == options.locales.val
             fallbackLocale == options.fallbackLocale.val
             failed == env.writeFailsAt \in 1..Len(locales)
             n == IF failed THEN env.writeFailsAt - 1 ELSE Len(locales)
             written == [i \in 1..n |->
                 [path |-> filePath(env.dir, locales[i], filename),
                  content |-> Stringify(
                      localeSpecificMessages(messages, locales[i], fallbackLocale),
                      <<" ", " ">>, <<>>)]]
             calls == [i \in 1..(IF failed THEN n + 1 ELSE n) |-> "fs.writeFileSync"]
         IN  [threw |-> IF failed THEN Some(FilesystemError) ELSE None,
              value |-> IF failed THEN <<>> ELSE requireString(env.dir, filename),
              dirs |-> {env.dir}, written |-> written,
              steps |-> <<"tmp.dirSync">> \o calls]

stringifyLazyMessages(resourcePath, messages, options, env) ==
    LET r == generateDynamicRequireString(Filename(resourcePath), messages, options, env)
    IN  [r EXCEPT !.value =
            IF r.threw = None THEN <<"JSON.stringify(">> \o r.value \o <<")">>
            ELSE <<>>]

\* ------------------------------------------------------------ generateCode

\* attrs.locale && typeof attrs.locale === 'string'
IsLocaleOverride(locale) ==
    locale # None /\ "str" \in DOMAIN locale.val /\ locale.val.str # ""

\* A slip: the parsed value is merged under the locale instead of wrapped.
WrapLocaleMerging(locale, messages) ==
    IF IsLocaleOverride(locale)
    THEN Obj(Define(messages.props, locale.val.str, messages))
    ELSE messages

WrapLocale(locale, messages) ==
    IF IsLocaleOverride(locale)
    THEN Obj(<<Prop(locale.val.str, messages)>>)
    ELSE messages

moduleText(expr) ==
    <<"module.exports = function (Component) {", "NL",
      "  Component.options.__i18n = Component.options.__i18n || []", "NL",
      "  Component.options.__i18n.push(">> \o expr \o <<")", "NL",
      "  delete Component.options._Ctor", "NL", "}", "NL">>

\* convert or JSON.parse throws.
ParseFails(source, lang) ==
    IF convert(source, lang).threw THEN TRUE
    ELSE convert(source, lang).json = ParseError

NoEffect(threw, calls) ==
    [threw |-> Some(threw), value |-> <<>>, dirs |-> {}, written |-> <<>>,
     steps |-> calls, messages |-> None]

\* attrs.lazy is truthy
IsLazy(attrs) == attrs.lazy \notin {None, Some("")}

\* The outcome of generateCode; messages is the message table it built.
generateCode(source, resourcePath, attrs, options, env) ==
    LET data == convert(source, attrs.lang)
    IN  IF data.threw THEN NoEffect(SyntaxError, <<"convert">>)
        ELSE IF data.json = ParseError
        THEN NoEffect(SyntaxError, <<"convert", "JSON.parse">>)
        ELSE LET messages == WrapLocale(attrs.locale, data.json.val)
                 before == <<"convert", "JSON.parse">>
             IN  IF IsLazy(attrs)
                 THEN LET r == stringifyLazyMessages(resourcePath, messages, options, env)
                      IN  [threw |-> r.threw,
                           value |-> IF r.threw = None THEN moduleText(r.value) ELSE <<>>,
                           dirs |-> r.dirs, written |-> r.written,
                           steps |-> before \o r.steps, messages |-> Some(messages)]
                 ELSE [threw |-> None,
                       value |-> moduleText(stringifyMessages(messages)),
                       dirs |-> {}, written |-> <<>>, steps |-> before,
                       messages |-> Some(messages)]

\* ------------------------------------------------------------------ loader

\* Longest list of locales in the plugin options.
MaxLocales == 2

\* this.version: None where the host sets none.
Versions == {None, Some(1), Some(2)}

Langs == {None, Some("yaml"), Some("json5")}

\* attrs.locale: absent, empty, a string, or the array that a repeated
\* parameter parses to.
LocaleAttrs == {None, Some([str |-> ""]), Some([str |-> "en"]),
                Some([arr |-> <<"en", "fr">>])}

LazyAttrs == {None, Some(""), Some("true")}

ResourcePaths ==
    {<<"/", "src", "/", "App.vue">>,
     <<"/", "src", "/", "it", SQ, "s.vue">>,
     <<"C:", BS, "src", BS, "App.vue", "?", "vue">>,
     <<"/", "src", "/">>}

Options ==
    [locales : {None} \cup {Some(l) : l \in TextsUpTo(Locale, MaxLocales)},
     fallbackLocale : {None, Some("")} \cup {Some(l) : l \in Locale}]

\* os.tmpdir() and the separator path.join puts after it.
TmpRoots == {[path |-> <<"/", "tmp">>, sep |-> "/"],
             [path |-> <<"C:", BS, "Temp">>, sep |-> BS]}

\* The name of the n-th directory tmp makes under root: tmp-<unique>.
DirName(root, n) == root.path \o <<root.sep, "t", "mp-", ToString(n)>>

\* A slip: the same name every time.
FreshDirsReused(root) == {DirName(root, 1)}

\* tmp.dirSync() returns a directory that did not exist.
FreshDirs(root) ==
    {DirName(root, CHOOSE n \in 1..(Cardinality(dirs) + 1) : DirName(root, n) \notin dirs)}

\* A slip: version 1 is let through.
SupportedFromOne(version) == version # None /\ version.val >= 1

\* this.version && Number(this.version) >= 2
Supported(version) == version # None /\ version.val >= 2

CapabilityError == [error |-> "support webpack 2 later"]

Write(disk, written, by) ==
    {f \in disk : \A i \in 1..Len(written) : written[i].path # f.path}
    \cup {[path |-> written[i].path, content |-> written[i].content, by |-> by] :
             i \in {j \in 1..Len(written) :
                       \A k \in (j + 1)..Len(written) : written[k].path # written[j].path}}

\* A slip: the catch block reports through the callback alone.
CatchSilently(threw) == <<>>

\* The catch block (and the else branch) before this.callback: emitError.
Catch(threw) == IF threw = None THEN <<>> ELSE <<"emitError">>

Unread == [read |-> FALSE]

\* The rest of the inputs of an invocation that reached the lazy branch.
LazyInputs(resourcePath, options, env) ==
    [resourcePath |-> resourcePath, options |-> options, env |-> env]

\* The whole invocation with these inputs, lazy being the inputs the lazy
\* branch reads (Unread where it is not reached).
Run(version, hasCacheable, source, attrs, lazy, out) ==
    /\ request' = Some([version |-> version, hasCacheable |-> hasCacheable,
                        source |-> source, attrs |-> attrs, lazy |-> lazy,
                        messages |-> out.messages])
    /\ steps' = (IF hasCacheable THEN <<"cacheable">> ELSE <<>>) \o out.steps
                    \o Catch(out.threw) \o <<"callback">>
    /\ completed' = <<[err |-> out.threw, content |-> out.value]>>
    /\ dirs' = dirs \cup out.dirs
    /\ files' = Write(files, out.written, 1)

\* loader, the host version being too old: nothing of the request is read.
LoaderUnsupported ==
    /\ request = None
    /\ \E version \in Versions :
        /\ ~Supported(version)
        /\ request' = Some([version |-> version])
        /\ steps' = Catch(Some(CapabilityError)) \o <<"callback">>
        /\ completed' = <<[err |-> Some(CapabilityError), content |-> <<>>]>>
        /\ UNCHANGED <<dirs, files>>
    /\ UNCHANGED <<cleanVars, applyVars, workerVars>>

NoEnv == [dir |-> <<>>, dirFails |-> FALSE, writeFailsAt |-> 0]

\* loader, eager: generateCode reads neither the path nor the options.
LoaderEager ==
    /\ request = None
    /\ \E version \in Versions, hasCacheable \in BOOLEAN, source \in Sources,
          lang \in Langs, locale \in LocaleAttrs, lazy \in LazyAttrs :
        LET attrs == [lang |-> lang, locale |-> locale, lazy |-> lazy]
        IN  /\ Supported(version)
            /\ IF IsLazy(attrs) THEN ParseFails(source, lang) ELSE TRUE
            /\ Run(version, hasCacheable, source, attrs, Unread,
                   generateCode(source, <<>>, attrs, Unread, NoEnv))
    /\ UNCHANGED <<cleanVars, applyVars, workerVars>>

\* loader, lazy, the resource having parsed.
LoaderLazy ==
    /\ request = None
    /\ \E version \in Versions, hasCacheable \in BOOLEAN, source \in Sources,
          lang \in Langs, locale \in LocaleAttrs, lazy \in LazyAttrs,
          resourcePath \in ResourcePaths, options \in Options,
          root \in TmpRoots, dirFails \in BOOLEAN, writeFailsAt \in 0..MaxLocales :
        LET attrs == [lang |-> lang, locale |-> locale, lazy |-> lazy]
        IN  /\ Supported(version)
            /\ IsLazy(attrs)
            /\ ~ParseFails(source, lang)
            /\ \E dir \in FreshDirs(root) :
                LET env == [dir |-> dir, dirFails |-> dirFails,
                            writeFailsAt |-> writeFailsAt]
                    out == generateCode(source, resourcePath, attrs, options, env)
                    \* what of the environment the invocation met
                    met == IF ~Configured(options) THEN NoEnv
                           ELSE IF dirFails THEN [NoEnv EXCEPT !.dirFails = TRUE]
                           ELSE env
                    \* each outcome is reached by one choice of what is not met
                IN  /\ IF ~Configured(options)
                       THEN ~dirFails /\ writeFailsAt = 0 /\ root.sep = "/"
                       ELSE IF dirFails THEN writeFailsAt = 0 /\ root.sep = "/"
                       ELSE writeFailsAt <= Len(options.locales.val)
                    /\ Run(version, hasCacheable, source, attrs,
                           LazyInputs(resourcePath, options, met), out)
    /\ UNCHANGED <<cleanVars, applyVars, workerVars>>

Init ==
    /\ request = None /\ steps = <<>> /\ completed = <<>>
    /\ dirs = {} /\ files = {}
    /\ CleanIdle /\ ApplyIdle /\ WorkersIdle

Next == LoaderUnsupported \/ LoaderEager \/ LoaderLazy

Spec == Init /\ [][Next]_vars

\* ------------------------------------------- reading the generated module

\* One step of the language's lexer over a module text, at position i.
\* st.open is 0 outside a string literal and the position of the opening
\* quote inside one; st.skip says that position i is escaped by a backslash;
\* st.literals are the bodies of the literals closed so far; st.unterminated
\* says that a line ended inside a literal.
LexStep(st, text, i) ==
    IF st.unterminated THEN st
    ELSE IF st.skip THEN [st EXCEPT !.skip = FALSE]
    ELSE IF st.open = 0
    THEN [st EXCEPT !.open = IF text[i] = SQ THEN i ELSE 0]
    ELSE IF text[i] = BS THEN [st EXCEPT !.skip = TRUE]
    ELSE IF text[i] = SQ
    THEN [st EXCEPT !.open = 0,
                    !.literals = Append(@, SubSeq(text, st.open + 1, i - 1))]
    ELSE IF text[i] \in {"NL", LS, PS} THEN [st EXCEPT !.unterminated = TRUE]
    ELSE st

RECURSIVE Lex(_, _, _, _)
\* The lexer over positions from..to, by halves.
Lex(text, from, to, st) ==
    IF from > to THEN st
    ELSE IF from = to THEN LexStep(st, text, from)
    ELSE LET first == Lex(text, from, (from + to) \div 2, st)
         IN  \* the first half is evaluated before the second is begun
             IF first.unterminated THEN first
             ELSE Lex(text, (from + to) \div 2 + 1, to, first)

\* The single-quoted string literals of a module text: their bodies, and
\* whether the text (or a line) ends inside one.
Literals(text) ==
    LET st == Lex(text, 1, Len(text),
                  [open |-> 0, skip |-> FALSE, literals |-> <<>>, unterminated |-> FALSE])
    IN  [literals |-> st.literals, unterminated |-> st.unterminated \/ st.open # 0]

\* The path the load expression of a module text requires where the locale
\* selector is locale.
RequiredPath(text, locale) ==
    LET lx == Literals(text)
    IN  IF lx.unterminated \/ Len(lx.literals) # 2 THEN <<"SyntaxError">>
        ELSE Unescape(lx.literals[1]) \o <<locale>> \o Unescape(lx.literals[2])

\* ------------------------------------------------------- claims about Spec

Done == request # None
Ran == Done /\ "source" \in DOMAIN request.val
Succeeded == Ran /\ completed[1].err = None
ReachedLazy == Ran /\ request.val.lazy # Unread
SucceededLazy == Succeeded /\ ReachedLazy
TheOptions == request.val.lazy.options
TheEnv == request.val.lazy.env
TheFilename == Filename(request.val.lazy.resourcePath)

\* C1 (as stated): with the lazy attribute set and locales absent or empty
\* or fallbackLocale absent, the invocation fails with the configuration
\* error, and no directory and no file has been made.
C1_ConfigurationErrorUnlessBoth ==
    (ReachedLazy /\ (\/ TheOptions.locales \in {None, Some(<<>>)}
                     \/ TheOptions.fallbackLocale = None))
        => /\ completed[1].err = Some(ConfigurationError)
           /\ dirs = {} /\ files = {}

\* C2: a host version absent or below 2 gets the capability error and a
\* failure result and nothing of the pipeline runs; with a version of 2 or
\* more the pipeline runs.
C2_VersionGate ==
    Done =>
        IF request.val.version = None \/ request.val.version.val < 2
        THEN /\ steps = <<"emitError", "callback">>
             /\ completed = <<[err |-> Some(CapabilityError), content |-> <<>>]>>
             /\ dirs = {} /\ files = {}
        ELSE \E i \in 1..Len(steps) : steps[i] = "convert"

C2_Witness ==
    Done /\ request.val.version = Some(1)

\* C3: the callback is called exactly once, last: with a module text and no
\* error, and then emitError was not called; or with an error and no text,
\* and then emitError was called exactly once, just before it.
C3_OneCompletion ==
    Done =>
        /\ Len(completed) = 1
        /\ Cardinality({i \in 1..Len(steps) : steps[i] = "callback"}) = 1
        /\ steps[Len(steps)] = "callback"
        /\ IF completed[1].err = None
           THEN /\ completed[1].content # <<>>
                /\ \A i \in 1..Len(steps) : steps[i] # "emitError"
           ELSE /\ completed[1].content = <<>>
                /\ Cardinality({i \in 1..Len(steps) : steps[i] = "emitError"}) = 1
                /\ steps[Len(steps) - 1] = "emitError"

\* A write failed after a fragment had been written.
C3_Witness ==
    /\ ReachedLazy
    /\ completed[1].err = Some(FilesystemError)
    /\ files # {}

\* The objects with the keys of base and of over, each key with over's value
\* where over has it and with base's otherwise, in any order of the keys.
Overlays(base, over) ==
    LET ks == (IF base = None THEN {} ELSE Keys(base.val))
                  \cup (IF over = None THEN {} ELSE Keys(over.val))
        val(k) == IF over # None /\ k \in Keys(over.val)
                  THEN Get(over.val, k).val ELSE Get(base.val, k).val
        want == {Prop(k, val(k)) : k \in ks}
    IN  {Obj(m) : m \in {q \in [1..Cardinality(ks) -> want] :
                            \A i, j \in 1..Cardinality(ks) : q[i] = q[j] => i = j}}

FragmentTexts(messages, locale, fallbackLocale) ==
    {Stringify(Obj(<<Prop(locale, m)>>), <<" ", " ">>, <<>>) :
        m \in Overlays(Get(messages, fallbackLocale), Get(messages, locale))}

\* C4: every fragment written for a locale L holds {L: M}, M having the keys
\* of the fallback's messages and of L's, each with L's value where L has it
\* and the fallback's otherwise; a locale or a fallback locale that the table
\* lacks contributes nothing, and raises no error.
C4_FragmentIsOverlay ==
    (ReachedLazy /\ Configured(TheOptions)) =>
        LET locales == TheOptions.locales.val
            fb == TheOptions.fallbackLocale.val
            messages == request.val.messages.val
        IN  /\ \A f \in files : \E i \in 1..Len(locales) :
                   /\ f.path = filePath(TheEnv.dir, locales[i], TheFilename)
                   /\ f.content \in FragmentTexts(messages, locales[i], fb)
            /\ (~TheEnv.dirFails /\ TheEnv.writeFailsAt = 0) =>
                   /\ completed[1].err = None
                   /\ \A i \in 1..Len(locales) : \E f \in files :
                          f.path = filePath(TheEnv.dir, locales[i], TheFilename)

\* A fragment for "en" was written from a table with both locales, the
\* fallback being "fr": the override and the fallback both contribute.
C4_Witness ==
    /\ SucceededLazy
    /\ TheOptions.fallbackLocale = Some("fr")
    /\ Keys(request.val.messages.val) = {"en", "fr"}
    /\ \E f \in files : f.path = filePath(TheEnv.dir, "en", TheFilename)

\* C6 (as stated): every module text returned has its string literals as
\* written: no quote ends one early, none holds a raw line separator.
C6_LiteralsIntact ==
    Succeeded =>
        LET lx == Literals(completed[1].content)
        IN  /\ ~lx.unterminated
            /\ Len(lx.literals) = IF ReachedLazy THEN 2 ELSE 1

\* C9: with a non-empty string as the locale attribute the message table is
\* the parsed value under that one key; otherwise it is the parsed value.
C9_LocaleWraps ==
    (Ran /\ request.val.messages # None) =>
        LET v == convert(request.val.source, request.val.attrs.lang).json.val
            l == request.val.attrs.locale
            messages == request.val.messages.val
        IN  IF l \in {Some([str |-> x]) : x \in Locale}
            THEN /\ Len(messages.props) = 1
                 /\ messages.props[1].k = l.val.str
                 /\ messages.props[1].v = v
            ELSE messages = v

\* A table with a key of its own was wrapped under the locale.
C9_Witness ==
    /\ Ran /\ request.val.messages # None
    /\ request.val.attrs.locale = Some([str |-> "en"])
    /\ "en" \in Keys(convert(request.val.source, request.val.attrs.lang).json.val)

\* C10 (as stated): after a successful lazy invocation the load expression,
\* the selector being a locale of the options, requires exactly the fragment
\* written for that locale, which exists; an eager invocation writes none.
C10_RequiresTheFragment ==
    /\ SucceededLazy =>
           \A i \in 1..Len(TheOptions.locales.val) :
               LET path == filePath(TheEnv.dir, TheOptions.locales.val[i], TheFilename)
               IN  /\ RequiredPath(completed[1].content, TheOptions.locales.val[i]) = path
                   /\ \E f \in files : f.path = path
    /\ (Ran /\ ~ReachedLazy) => files = {}

\* --------------------------------------------------- the generated module

\* Most applications of generated modules to one component.
MaxApplied == 4

Null == [null |-> TRUE]

\* The values the argument of push evaluates to: the JSON texts of messages.
PushedValues == {Stringify(v, <<>>, <<>>) : v \in EnObjects \cup FrObjects}

\* A slip: the array is made anew each time.
i18nOverwritten(options) == <<>>

\* Component.options.__i18n || []
i18nOrEmpty(options) ==
    IF options.i18n \in {None, Null} THEN <<>> ELSE options.i18n.val

InitApply ==
    /\ Component \in [i18n : {None, Null, Some(<<>>)} \cup {Some(<<v>>) : v \in PushedValues},
                      Ctor : {None, Some("cached")}]
    /\ applied = [found |-> Component, pushed |-> <<>>]
    /\ CleanIdle /\ LoaderIdle /\ DiskIdle /\ WorkersIdle

\* The function a generated module exports, applied to the component.
Apply ==
    /\ Len(applied.pushed) < MaxApplied
    /\ \E value \in PushedValues :
        /\ Component' = [i18n |-> Some(Append(i18nOrEmpty(Component), value)),
                         Ctor |-> None]
        /\ applied' = [applied EXCEPT !.pushed = Append(@, value)]
    /\ UNCHANGED <<cleanVars, loaderVars, diskVars, workerVars>>

NextApply == Apply

SpecApply == InitApply /\ [][NextApply]_vars

\* C7: after k applications __i18n is the array found (empty where none was
\* found) followed by the k values pushed, in order, and _Ctor is absent.
C7_PushesAccumulate ==
    LET found == IF applied.found.i18n \in {None, Null} THEN <<>>
                 ELSE applied.found.i18n.val
    IN  applied.pushed # <<>> =>
            /\ Component.i18n = Some(found \o applied.pushed)
            /\ Len(Component.i18n.val) = Len(found) + Len(applied.pushed)
            /\ Component.Ctor = None

\* Two modules were applied to a component that had an entry and a cached
\* constructor.
C7_Witness ==
    /\ Len(applied.pushed) = 2
    /\ applied.found.i18n \notin {None, Null, Some(<<>>)}
    /\ applied.found.Ctor # None

\* ----------------------------------------------------- concurrent workers

\* Invocations the host runs at once.
NumWorkers == 2

Worker == 1..NumWorkers

WorkerPaths == {<<"/", "src", "/", "App.vue">>, <<"/", "src", "/", "Other.vue">>}

WorkerMessages ==
    Obj(<<Prop("en", Obj(<<Prop("hello", hi)>>)),
          Prop("fr", Obj(<<Prop("hello", salut), Prop("bonus", bonus)>>))>>)

PosixTmp == [path |-> <<"/", "tmp">>, sep |-> "/"]

InitWorkers ==
    /\ pluginOptions \in {o \in Options : Configured(o) /\ o.locales.val # <<>>}
    /\ workers = [w \in Worker |-> [pc |-> "start"]]
    /\ writes = {}
    /\ dirs = {} /\ files = {}
    /\ CleanIdle /\ LoaderIdle /\ ApplyIdle

\* Worker w, in lazy mode with a resource that parsed, reaches tmp.dirSync.
AllocDir(w) ==
    /\ workers[w].pc = "start"
    /\ \E resourcePath \in WorkerPaths, dir \in FreshDirs(PosixTmp) :
        /\ workers' = [workers EXCEPT ![w] =
               [pc |-> "writing", filename |-> Filename(resourcePath),
                dir |-> dir, next |-> 1]]
        /\ dirs' = dirs \cup {dir}
    /\ UNCHANGED <<files, writes, pluginOptions, cleanVars, loaderVars, applyVars>>

\* Worker w writes the fragment of its next locale.
WriteFragment(w) ==
    /\ workers[w].pc = "writing"
    /\ workers[w].next <= Len(pluginOptions.locales.val)
    /\ LET locale == pluginOptions.locales.val[workers[w].next]
           written == <<[path |-> filePath(workers[w].dir, locale, workers[w].filename),
                         content |-> Stringify(
                             localeSpecificMessages(WorkerMessages, locale,
                                                    pluginOptions.fallbackLocale.val),
                             <<" ", " ">>, <<>>)]>>
       IN  /\ files' = Write(files, written, w)
           /\ writes' = writes \cup {[path |-> written[1].path, by |-> w]}
    /\ workers' = [workers EXCEPT ![w].next = @ + 1]
    /\ UNCHANGED <<dirs, pluginOptions, cleanVars, loaderVars, applyVars>>

\* Worker w, every fragment written, returns the load expression.
Complete(w) ==
    /\ workers[w].pc = "writing"
    /\ workers[w].next > Len(pluginOptions.locales.val)
    /\ workers' = [workers EXCEPT ![w].pc = "done"]
    /\ UNCHANGED <<dirs, files, writes, pluginOptions, cleanVars, loaderVars, applyVars>>

NextWorkers == \E w \in Worker : AllocDir(w) \/ WriteFragment(w) \/ Complete(w)

SpecWorkers == InitWorkers /\ [][NextWorkers]_vars

IsPrefix(p, t) == Len(p) <= Len(t) /\ SubSeq(t, 1, Len(p)) = p

\* Every write of an invocation is inside the directory it allocated,
\* no path is written by two invocations, and every file on disk is as its
\* last writer wrote it.
WritesKeepApart ==
    /\ \A e \in writes :
           /\ workers[e.by].pc # "start"
           /\ IsPrefix(workers[e.by].dir \o <<"/">>, e.path)
    /\ \A e1, e2 \in writes : e1.path = e2.path => e1.by = e2.by
    /\ \A v, w \in Worker :
           (v # w /\ workers[v].pc # "start" /\ workers[w].pc # "start")
               => workers[v].dir # workers[w].dir
    /\ \A e \in writes : \E f \in files : f.path = e.path /\ f.by = e.by

\* C8: concurrent lazy invocations keep their writes apart, and no step of
\* any of them changes the plugin options.
C8_InvocationsShareNothing ==
    []WritesKeepApart /\ [][pluginOptions' = pluginOptions]_vars

\* Two invocations of resources of the same name have both written the
\* fragment of the same locale.
C8_Witness ==
    \E v, w \in Worker :
        /\ v # w
        /\ workers[v].pc = "done" /\ workers[w].pc = "done"
        /\ workers[v].filename = workers[w].filename
        /\ Cardinality(writes) >= 2

\* --------------------------------------------------------------- SpecClean

CleanAlphabet == {BS, SQ, LS, PS, "u", "2", "0", "a"}

InitClean ==
    /\ messagesString \in TextsUpTo(CleanAlphabet, MaxLen)
    /\ cleaned = None
    /\ LoaderIdle /\ DiskIdle /\ ApplyIdle /\ WorkersIdle

Clean ==
    /\ cleaned = None
    /\ cleaned' = Some(cleanMessagesString(messagesString))
    /\ UNCHANGED <<messagesString, loaderVars, diskVars, applyVars, workerVars>>

NextClean == Clean

SpecClean == InitClean /\ [][NextClean]_vars

\* C5 (as stated): the literal body produced for s, read back as a string
\* literal, is s character for character.
C5_RoundTripExact ==
    cleaned # None => Unescape(cleaned.val) = messagesString

\* C5 (amended): read back, the literal body is s with each U+2028 and
\* U+2029 replaced by the six characters of its \uXXXX escape; it is s itself
\* where s holds neither separator.
C5_RoundTripUpToSeparators ==
    cleaned # None =>
        /\ Unescape(cleaned.val) =
               ReplaceAll(ReplaceAll(messagesString, LS, EscLS), PS, EscPS)
        /\ (\A i \in 1..Len(messagesString) : messagesString[i] \notin {LS, PS})
               => Unescape(cleaned.val) = messagesString

\* A text with a backslash before a quote has been cleaned.
C5_Witness ==
    /\ cleaned # None
    /\ \E i \in 1..(Len(messagesString) - 1) :
           messagesString[i] = BS /\ messagesString[i + 1] = SQ

====
